---- MODULE Spec2Model ----
(***************************************************************************)
(* Model of the SMIL animation compiler of rudo (src/src/smil-utilities.ts) *)
(* and of the types it works on, and of the hook that attaches the compiled *)
(* directives to an element (useAnimatedElement, src/src/components.tsx).   *)
(*                                                                          *)
(* Spec is the compiler called as a library; HookSpec is one component      *)
(* that uses the hook, through its renders, effects and cleanups.           *)
(*                                                                          *)
(* Encoding of JavaScript values:                                           *)
(*   - an optional field is a sequence of length 0 (undefined) or 1;        *)
(*   - a number is an integer counting halves, so that 0.5 can be a         *)
(*     keyTimes checkpoint: h stands for h/2, and One stands for 1;         *)
(*   - `begin` is a record tagged "string" or "trigger";                    *)
(*   - `easing` is a record tagged "name" (one curve) or "array";           *)
(*   - a thrown value is a record [name, message];                          *)
(*   - the result of a call is Return(value) or Throw(error).               *)
(***************************************************************************)
EXTENDS Integers, Sequences, FiniteSets, TLC

VARIABLES
  element,      \* tag of the element that owns the animations
  elementId,    \* id of the owning (animated) element
  refId,        \* id of the node each trigger reference points at
  animations,   \* the {property -> spec} mapping, in Object.entries order
  call,         \* the last API call made
  result,       \* what the last API call returned or threw
  trace,        \* properties generateSMILAnimation was invoked on by the last call
  emitted,      \* [id, token] of every directive emitted so far, in call order
  animate,      \* the `animations` argument of the hook at the latest render
  current,      \* the trigger references whose .current is a node
  smil,         \* what supportsSMIL() answers on this host
  phase,        \* where the component is in its life cycle
  triggerRefSet, \* the triggerRefs set the latest render computed
  children,     \* the animate children of the element, in document order
  cleanup,      \* whether the latest effect run returned a cleanup function
  hostError,    \* what a render threw into the host tree, if anything
  logged,       \* the error of the latest console.error call, if any
  renders       \* the number of renders so far

hookVars ==
  <<animate, current, smil, phase, triggerRefSet, children, cleanup, hostError,
    logged, renders>>

vars ==
  <<element, elementId, refId, animations, call, result, trace, emitted,
    hookVars>>

\* ------------------------------------------------------------------ bounds
MaxLen == 3
MaxProps == 2
MaxEmitted == 2
MaxRenders == 2

\* The number 1 in the model's unit (halves).
One == 2

\* ------------------------------------------------------- JavaScript values
Undefined == <<>>
Def(v) == <<v>>
IsDef(o) == o # Undefined
Val(o) == o[1]

Return(v) == [kind |-> "return", value |-> v]
Throw(e) == [kind |-> "throw", error |-> e]

\* String(n) for a number n = h/2.
NumText(h) ==
  IF h % 2 = 0 THEN ToString(h \div 2)
  ELSE (IF h < 0 THEN "-" ELSE "") \o
       ToString((IF h < 0 THEN 0 - h ELSE h) \div 2) \o ".5"

\* `${x}` for an optional string: the text "undefined" when x is undefined.
StrText(o) == IF IsDef(o) THEN Val(o) ELSE "undefined"

\* Array.prototype.join over already converted texts.
RECURSIVE Join(_, _)
Join(texts, sep) ==
  IF Len(texts) = 0 THEN ""
  ELSE IF Len(texts) = 1 THEN texts[1]
  ELSE texts[1] \o sep \o Join(Tail(texts), sep)

JoinNums(nums, sep) == Join([i \in 1..Len(nums) |-> NumText(nums[i])], sep)

\* Truthiness of an optional string, and of an optional array or object.
TruthyStr(o) == IsDef(o) /\ Val(o) # ""
TruthyObj(o) == IsDef(o)

\* --------------------------------------------------------------- types.ts
AnimationValidationError(message, property, elementTag) ==
  [name |-> "AnimationValidationError",
   message |-> "Animation validation error for " \o elementTag \o "." \o
               property \o ": " \o message]

\* `${error}`: Error.prototype.toString.
ErrorText(error) == error.name \o ": " \o error.message

\* Reading a property of undefined.
TypeErrorUndefined ==
  [name |-> "TypeError", message |-> "Cannot read properties of undefined"]

\* ------------------------------------------------------------- EASING_MAP
EASING_MAP ==
  [n \in {"linear", "ease", "ease-in", "ease-out", "ease-in-out", "bounce",
          "elastic", "back", "cubic-bezier"} |->
     CASE n = "linear" -> "0 0 1 1"
       [] n = "ease" -> "0.25 0.1 0.25 1"
       [] n = "ease-in" -> "0.42 0 1 1"
       [] n = "ease-out" -> "0 0 0.58 1"
       [] n = "ease-in-out" -> "0.42 0 0.58 1"
       [] n = "bounce" -> "0.68 -0.55 0.265 1.55"
       [] n = "elastic" -> "0.175 0.885 0.32 1.275"
       [] n = "back" -> "0.68 -0.55 0.265 1.55"
       [] n = "cubic-bezier" -> "0.25 0.1 0.25 1"]

IsArrayEasing(easing) == IsDef(easing) /\ Val(easing).tag = "array"

easingToKeySplines(e) ==
  IF e.tag = "array"
  THEN Join([i \in 1..Len(e.names) |-> EASING_MAP[e.names[i]]], "; ")
  ELSE EASING_MAP[e.names[1]]

\* ------------------------------------------------------- validateAnimation
\* EasingLengthMismatch against the number of values, not of transitions.
EasingLengthMismatch_PerValue(easing, transitionCount) ==
  IsArrayEasing(easing) /\ Len(Val(easing).names) # transitionCount + 1

EasingLengthMismatch(easing, transitionCount) ==
  IsArrayEasing(easing) /\ Len(Val(easing).names) # transitionCount

KeyTimesLengthMismatch(keyTimes, values) ==
  TruthyObj(keyTimes) /\ Len(Val(keyTimes)) # Len(values)

KeyTimeOutOfRange(t) == t < 0 \/ t > One

\* KeyTimeNotAscending with < for <=: equal neighbours pass.
KeyTimeNotAscending_AllowsEqual(keyTimes, i) ==
  i > 1 /\ keyTimes[i] < keyTimes[i - 1]

KeyTimeNotAscending(keyTimes, i) == i > 1 /\ keyTimes[i] <= keyTimes[i - 1]

\* ScanKeyTimes with the two tests of the loop body in the other order.
RECURSIVE ScanKeyTimes_AscendingFirst(_, _, _, _)
ScanKeyTimes_AscendingFirst(keyTimes, i, property, elementTag) ==
  IF i > Len(keyTimes) THEN Undefined
  ELSE IF KeyTimeNotAscending(keyTimes, i)
  THEN Def(AnimationValidationError(
         "keyTimes values must be in ascending order", property, elementTag))
  ELSE IF KeyTimeOutOfRange(keyTimes[i])
  THEN Def(AnimationValidationError(
         "keyTimes values must be between 0 and 1, got " \o
         NumText(keyTimes[i]) \o " at index " \o ToString(i - 1),
         property, elementTag))
  ELSE ScanKeyTimes_AscendingFirst(keyTimes, i + 1, property, elementTag)

\* The for loop over keyTimes (i is the 1-based index): the first error it
\* throws, or Undefined when it runs to the end.
RECURSIVE ScanKeyTimes(_, _, _, _)
ScanKeyTimes(keyTimes, i, property, elementTag) ==
  IF i > Len(keyTimes) THEN Undefined
  ELSE IF KeyTimeOutOfRange(keyTimes[i])
  THEN Def(AnimationValidationError(
         "keyTimes values must be between 0 and 1, got " \o
         NumText(keyTimes[i]) \o " at index " \o ToString(i - 1),
         property, elementTag))
  ELSE IF KeyTimeNotAscending(keyTimes, i)
  THEN Def(AnimationValidationError(
         "keyTimes values must be in ascending order", property, elementTag))
  ELSE ScanKeyTimes(keyTimes, i + 1, property, elementTag)

\* keyTimes[0] !== 0 (keyTimes[0] is undefined for an empty array).
FirstKeyTimeNotZero(keyTimes) == Len(keyTimes) = 0 \/ keyTimes[1] # 0

\* keyTimes[keyTimes.length - 1] !== 1.
LastKeyTimeNotOne(keyTimes) ==
  Len(keyTimes) = 0 \/ keyTimes[Len(keyTimes)] # One

\* The checks made when keyTimes is truthy: the error thrown, or Undefined.
KeyTimesChecks(keyTimes, property, elementTag) ==
  LET scan == ScanKeyTimes(keyTimes, 1, property, elementTag)
  IN IF IsDef(scan) THEN scan
     ELSE IF FirstKeyTimeNotZero(keyTimes)
     THEN Def(AnimationValidationError(
            "First keyTimes value must be 0, got " \o
            (IF Len(keyTimes) = 0 THEN "undefined" ELSE NumText(keyTimes[1])),
            property, elementTag))
     ELSE IF LastKeyTimeNotOne(keyTimes)
     THEN Def(AnimationValidationError(
            "Last keyTimes value must be 1, got " \o
            NumText(keyTimes[Len(keyTimes)]), property, elementTag))
     ELSE Undefined

\* The block guarded by `if (values)`: the error thrown, or Undefined.
ValuesChecks(a, property, elementTag) ==
  LET values == Val(a.values)
      transitionCount == Len(values) - 1
  IN IF EasingLengthMismatch(a.easing, transitionCount)
     THEN Def(AnimationValidationError(
            "Easing array length (" \o ToString(Len(Val(a.easing).names)) \o
            ") must match number of transitions (" \o
            ToString(transitionCount) \o ")", property, elementTag))
     ELSE IF KeyTimesLengthMismatch(a.keyTimes, values)
     THEN Def(AnimationValidationError(
            "keyTimes array length (" \o ToString(Len(Val(a.keyTimes))) \o
            ") must match values array length (" \o
            ToString(Len(values)) \o ")", property, elementTag))
     ELSE IF TruthyObj(a.keyTimes)
     THEN KeyTimesChecks(Val(a.keyTimes), property, elementTag)
     ELSE Undefined

\* MissingValuesOrEndpoints with a falsy test of the endpoints: 0 is missing.
MissingValuesOrEndpoints_Falsy(a) ==
  /\ ~TruthyObj(a.values)
  /\ \/ a.from = Undefined \/ Val(a.from) = 0
     \/ a.to = Undefined \/ Val(a.to) = 0

\* MissingValuesOrEndpoints with && between the two endpoint tests.
MissingValuesOrEndpoints_BothMissing(a) ==
  ~TruthyObj(a.values) /\ (a.from = Undefined /\ a.to = Undefined)

MissingValuesOrEndpoints(a) ==
  ~TruthyObj(a.values) /\ (a.from = Undefined \/ a.to = Undefined)

MissingMessage ==
  "Animation must have either 'values' array or both 'from' and 'to' properties"

\* `animation` is optional: destructuring undefined throws a TypeError.
validateAnimation(property, animation, elementTag) ==
  IF ~IsDef(animation) THEN Throw(TypeErrorUndefined)
  ELSE LET a == Val(animation)
           first == IF TruthyObj(a.values)
                    THEN ValuesChecks(a, property, elementTag)
                    ELSE Undefined
       IN IF IsDef(first) THEN Throw(Val(first))
          ELSE IF MissingValuesOrEndpoints(a)
          THEN Throw(AnimationValidationError(MissingMessage, property, elementTag))
          ELSE Return(Undefined)

\* --------------------------------------------------- generateSMILAnimation
Attr(name, value) == [name |-> name, value |-> value]

\* One token of the attributes array: name="value".
AttrText(t) == t.name \o "=\"" \o t.value \o "\""

triggerToBeginValue(trigger, targetElementId) ==
  targetElementId \o "." \o trigger.type

TruthyBegin(begin) ==
  IsDef(begin) /\ (Val(begin).tag = "string" => Val(begin).text # "")

\* IdAttrs with the property name put where the id goes.
IdAttrs_PropertyAsId(a, property) ==
  <<Attr("id", property), Attr("attributeName", property),
    Attr("dur", a.duration)>>

IdAttrs(a, property) ==
  <<Attr("id", StrText(a.id)), Attr("attributeName", property),
    Attr("dur", a.duration)>>

ValueAttrs(a) ==
  IF TruthyObj(a.values)
  THEN <<Attr("values", JoinNums(Val(a.values), ";"))>>
  ELSE (IF a.from # Undefined
        THEN <<Attr("from", NumText(Val(a.from)))>> ELSE <<>>) \o
       (IF a.to # Undefined
        THEN <<Attr("to", NumText(Val(a.to)))>> ELSE <<>>)

\* The trigger branch passes the config's elementId as targetElementId.
BeginAttrs(a, configElementId) ==
  IF TruthyBegin(a.begin)
  THEN IF Val(a.begin).tag = "string"
       THEN <<Attr("begin", Val(a.begin).text)>>
       ELSE <<Attr("begin", triggerToBeginValue(Val(a.begin), configElementId))>>
  ELSE <<>>

KeyTimesAttrs(a) ==
  IF TruthyObj(a.keyTimes)
  THEN <<Attr("keyTimes", JoinNums(Val(a.keyTimes), ";"))>>
  ELSE <<>>

SplineAttrs(a) ==
  IF TruthyStr(a.keySplines)
  THEN <<Attr("keySplines", Val(a.keySplines)), Attr("calcMode", "spline")>>
  ELSE IF IsDef(a.easing)
  THEN <<Attr("keySplines", easingToKeySplines(Val(a.easing))),
         Attr("calcMode", "spline")>>
  ELSE <<>>

\* CalcModeAttrs without the test that easing or keySplines already set it.
CalcModeAttrs_Unguarded(a) ==
  IF TruthyStr(a.calcMode) THEN <<Attr("calcMode", Val(a.calcMode))>> ELSE <<>>

CalcModeAttrs(a) ==
  IF TruthyStr(a.calcMode) /\ ~TruthyStr(a.keySplines) /\ ~IsDef(a.easing)
  THEN <<Attr("calcMode", Val(a.calcMode))>>
  ELSE <<>>

\* repeatCount is a number or the text 'indefinite'.
RepeatText(v) == IF v.tag = "number" THEN NumText(v.n) ELSE v.text

BehaviourAttrs(a) ==
  (IF a.repeatCount # Undefined
   THEN <<Attr("repeatCount", RepeatText(Val(a.repeatCount)))>> ELSE <<>>) \o
  (IF TruthyStr(a.fill) THEN <<Attr("fill", Val(a.fill))>> ELSE <<>>) \o
  (IF TruthyStr(a.restart) THEN <<Attr("restart", Val(a.restart))>> ELSE <<>>)

\* Attributes with begin pushed after the behaviour attributes.
Attributes_BeginLast(a, property, configElementId) ==
  IdAttrs(a, property) \o ValueAttrs(a) \o KeyTimesAttrs(a) \o SplineAttrs(a) \o
  CalcModeAttrs(a) \o BehaviourAttrs(a) \o BeginAttrs(a, configElementId)

Attributes(a, property, configElementId) ==
  IdAttrs(a, property) \o ValueAttrs(a) \o BeginAttrs(a, configElementId) \o
  KeyTimesAttrs(a) \o SplineAttrs(a) \o CalcModeAttrs(a) \o BehaviourAttrs(a)

Markup(attributes) ==
  "<animate " \o
  Join([i \in 1..Len(attributes) |-> AttrText(attributes[i])], " ") \o " />"

\* The directive: the attributes array and the string built from it.
generateSMILAnimation(config) ==
  LET v == validateAnimation(config.property, config.animation, config.element)
  IN IF v.kind = "throw" THEN v
     ELSE LET attributes == Attributes(Val(config.animation), config.property,
                                       config.elementId)
          IN Return([attributes |-> attributes, markup |-> Markup(attributes)])

\* ----------------------------------------------- generateElementAnimations
\* Rethrow without the wrapping: whatever was caught is thrown again.
Rethrow_Unwrapped(error, property, elementTag) == error

\* The catch block: a validation error is rethrown, anything else is wrapped.
Rethrow(error, property, elementTag) ==
  IF error.name = "AnimationValidationError" THEN error
  ELSE AnimationValidationError(
         "Failed to generate animation: " \o ErrorText(error),
         property, elementTag)

\* CompileEntries whose catch block leaves the loop and lets the function
\* return what was compiled before the failure.
RECURSIVE CompileEntries_Partial(_, _, _, _, _, _)
CompileEntries_Partial(elementTag, entries, ownerId, i, animationElements, invoked) ==
  IF i > Len(entries)
  THEN [outcome |-> Return(animationElements), invoked |-> invoked,
        compiled |-> animationElements]
  ELSE LET property == entries[i].property
           r == generateSMILAnimation(
                  [element |-> elementTag, property |-> property,
                   animation |-> entries[i].animation, elementId |-> ownerId])
       IN IF r.kind = "return"
          THEN CompileEntries_Partial(elementTag, entries, ownerId, i + 1,
                                      Append(animationElements, r.value),
                                      Append(invoked, property))
          ELSE [outcome |-> Return(animationElements),
                invoked |-> Append(invoked, property),
                compiled |-> animationElements]

\* The for loop from entry i on; animationElements is the array built so far
\* and invoked the properties generateSMILAnimation was called on.
RECURSIVE CompileEntries(_, _, _, _, _, _)
CompileEntries(elementTag, entries, ownerId, i, animationElements, invoked) ==
  IF i > Len(entries)
  THEN [outcome |-> Return(animationElements), invoked |-> invoked,
        compiled |-> animationElements]
  ELSE LET property == entries[i].property
           r == generateSMILAnimation(
                  [element |-> elementTag, property |-> property,
                   animation |-> entries[i].animation, elementId |-> ownerId])
       IN IF r.kind = "return"
          THEN CompileEntries(elementTag, entries, ownerId, i + 1,
                              Append(animationElements, r.value),
                              Append(invoked, property))
          ELSE [outcome |-> Throw(Rethrow(r.error, property, elementTag)),
                invoked |-> Append(invoked, property),
                compiled |-> animationElements]

generateElementAnimations(elementTag, entries, ownerId) ==
  CompileEntries(elementTag, entries, ownerId, 1, <<>>, <<>>)

\* ------------------------------------------------------ extractTriggerRefs
IsTriggerBegin(begin) == TruthyBegin(begin) /\ Val(begin).tag # "string"

\* The loop over Object.values from entry i on; reading `.begin` of an
\* undefined entry throws.
RECURSIVE CollectTriggerRefs(_, _, _)
CollectTriggerRefs(entries, i, triggerRefs) ==
  IF i > Len(entries) THEN Return(triggerRefs)
  ELSE IF ~IsDef(entries[i].animation) THEN Throw(TypeErrorUndefined)
  ELSE LET begin == Val(entries[i].animation).begin
       IN CollectTriggerRefs(entries, i + 1,
            IF IsTriggerBegin(begin)
            THEN triggerRefs \cup {Val(begin).target}
            ELSE triggerRefs)

\* extractTriggerRefs whose loop starts one entry late.
extractTriggerRefs_SkipsFirst(entries) == CollectTriggerRefs(entries, 2, {})

extractTriggerRefs(entries) == CollectTriggerRefs(entries, 1, {})

\* ------------------------------------------------------------------ inputs
Refs == {"ref1", "ref2"}
IdNames == {"rect1", "btn1"}

\* The i-th key of a mapping, in insertion order.
PropOrder == <<"y", "x", "width", "opacity">>

BeginText(text) == [tag |-> "string", text |-> text]
Trigger(type, target) == [tag |-> "trigger", type |-> type, target |-> target]
EasingName(n) == [tag |-> "name", names |-> <<n>>]
EasingArray(names) == [tag |-> "array", names |-> names]
Number(h) == [tag |-> "number", n |-> h]
Indefinite == [tag |-> "string", text |-> "indefinite"]

\* 0, 50, 100, ... and ease, bounce, linear, ease, ...
ValuesOfLen(n) == [i \in 1..n |-> (i - 1) * 50 * One]
EasingsOfLen(n) == [i \in 1..n |-> <<"ease", "bounce", "linear">>[((i - 1) % 3) + 1]]

\* -0.5, 0, 0.5, 1, 1.5
KeyTimeValues == {0 - 1, 0, 1, One, One + 1}

EndChoices == {Undefined, Def(0)}
ValuesChoices == {Undefined} \cup {Def(ValuesOfLen(n)) : n \in 0..MaxLen}
KeyTimesChoices ==
  {Undefined} \cup UNION {{Def(k) : k \in [1..n -> KeyTimeValues]} : n \in 0..MaxLen}
EasingChoices ==
  {Undefined, Def(EasingName("linear"))} \cup
  {Def(EasingArray(EasingsOfLen(n))) : n \in 0..MaxLen}

Plain ==
  [id |-> Def("move"), from |-> Def(0), to |-> Def(100 * One),
   values |-> Undefined, duration |-> "2s", begin |-> Undefined,
   keyTimes |-> Undefined, easing |-> Undefined, keySplines |-> Undefined,
   calcMode |-> Undefined, repeatCount |-> Undefined, fill |-> Undefined,
   restart |-> Undefined]

Stepped ==
  [Plain EXCEPT !.from = Undefined, !.to = Undefined,
                !.values = Def(<<0, 50 * One, 100 * One>>),
                !.keyTimes = Def(<<0, 1, One>>)]

\* Specs that vary what validateAnimation reads.
ValidationSpecs ==
  {[Plain EXCEPT !.from = f, !.to = t, !.values = v, !.keyTimes = k, !.easing = e] :
     f \in EndChoices, t \in EndChoices, v \in ValuesChoices,
     k \in KeyTimesChoices, e \in {Undefined, Def(EasingArray(<<"ease">>))}}
  \cup
  {[Plain EXCEPT !.from = f, !.to = t, !.values = v, !.keyTimes = k, !.easing = e] :
     f \in EndChoices, t \in EndChoices, v \in ValuesChoices,
     k \in {Undefined, Def(<<0, One>>), Def(<<0, 1, One>>)}, e \in EasingChoices}

\* Specs that vary what only the attribute construction reads.
EmissionSpecs ==
  {[b EXCEPT !.id = i, !.begin = g, !.keySplines = ks, !.easing = e,
             !.calcMode = c, !.repeatCount = rc, !.fill = fl, !.restart = rs] :
     b \in {Plain, Stepped, [Plain EXCEPT !.to = Undefined]},
     i \in {Undefined, Def("move")},
     g \in {Undefined, Def(BeginText("0s")), Def(Trigger("click", "ref1"))},
     ks \in {Undefined, Def("0.5 0 0.5 1; 0 0 1 1")},
     e \in {Undefined, Def(EasingName("ease")),
            Def(EasingArray(<<"ease", "bounce">>))},
     c \in {Undefined, Def("discrete")},
     rc \in {Undefined, Def(Number(0)), Def(Indefinite)},
     fl \in {Undefined, Def("freeze")},
     rs \in {Undefined, Def("never")}}

\* The entries of the mappings with several properties; the first is a key
\* whose value is undefined.
BatchAnimations ==
  {Undefined,
   Def(Plain),
   Def([Plain EXCEPT !.id = Undefined]),
   Def([Plain EXCEPT !.id = Def("fade"), !.begin = Def(BeginText("move.end"))]),
   Def([Plain EXCEPT !.begin = Def(Trigger("click", "ref1"))]),
   Def([Plain EXCEPT !.id = Undefined, !.begin = Def(Trigger("focus", "ref2"))]),
   Def([Stepped EXCEPT !.easing = Def(EasingArray(<<"ease", "bounce">>))]),
   Def([Plain EXCEPT !.to = Undefined])}

Entry(i, animation) == [property |-> PropOrder[i], animation |-> animation]

Mappings(S) ==
  UNION {{[i \in 1..n |-> Entry(i, f[i])] : f \in [1..n -> S]} : n \in 0..MaxProps}

Scenarios ==
  {[element |-> "rect", elementId |-> "rect1",
    refId |-> [r \in Refs |-> "btn1"],
    animations |-> <<Entry(1, Def(s))>>] : s \in ValidationSpecs \cup EmissionSpecs}
  \cup
  {[element |-> "circle", elementId |-> "rect1", refId |-> f, animations |-> m] :
     f \in [Refs -> IdNames], m \in Mappings(BatchAnimations)}

\* ----------------------------------------------------------------- actions
\* No component is mounted: the compiler is called directly.
NoComponent ==
  /\ animate = <<>>
  /\ current = Refs
  /\ smil = TRUE
  /\ phase = "none"
  /\ triggerRefSet = {}
  /\ children = <<>>
  /\ cleanup = FALSE
  /\ hostError = <<>>
  /\ logged = <<>>
  /\ renders = 0

Init ==
  \E s \in Scenarios :
    /\ element = s.element
    /\ elementId = s.elementId
    /\ refId = s.refId
    /\ animations = s.animations
    /\ call = [op |-> "none", index |-> 0]
    /\ result = Return(Undefined)
    /\ trace = <<>>
    /\ emitted = <<>>
    /\ NoComponent

Config(k) ==
  [element |-> element, property |-> animations[k].property,
   animation |-> animations[k].animation, elementId |-> elementId]

\* The id token of a directive: the value of its id attribute.
IdToken(directive) ==
  LET i == CHOOSE j \in 1..Len(directive.attributes) :
             directive.attributes[j].name = "id"
  IN directive.attributes[i].value

\* What the history keeps of generateSMILAnimation returning `directive` for
\* `animation`.
LogEntry(animation, directive) ==
  [id |-> Val(animation).id, token |-> IdToken(directive)]

CallValidateAnimation ==
  \E k \in 1..Len(animations) :
    /\ call' = [op |-> "validateAnimation", index |-> k]
    /\ result' = validateAnimation(animations[k].property,
                                   animations[k].animation, element)
    /\ trace' = <<>>
    /\ UNCHANGED <<element, elementId, refId, animations, emitted, hookVars>>

CallGenerateSMILAnimation ==
  \E k \in 1..Len(animations) :
    /\ Len(emitted) < MaxEmitted
    /\ LET r == generateSMILAnimation(Config(k))
       IN /\ result' = r
          /\ emitted' = IF r.kind = "return"
                        THEN Append(emitted, LogEntry(animations[k].animation, r.value))
                        ELSE emitted
    /\ call' = [op |-> "generateSMILAnimation", index |-> k]
    /\ trace' = <<animations[k].property>>
    /\ UNCHANGED <<element, elementId, refId, animations, hookVars>>

CallGenerateElementAnimations ==
  /\ Len(emitted) + Len(animations) <= MaxEmitted
  /\ LET r == generateElementAnimations(element, animations, elementId)
     IN /\ result' = r.outcome
        /\ trace' = r.invoked
        /\ emitted' = emitted \o
             [i \in 1..Len(r.compiled) |->
                LogEntry(animations[i].animation, r.compiled[i])]
  /\ call' = [op |-> "generateElementAnimations", index |-> 0]
  /\ UNCHANGED <<element, elementId, refId, animations, hookVars>>

CallExtractTriggerRefs ==
  /\ call' = [op |-> "extractTriggerRefs", index |-> 0]
  /\ result' = extractTriggerRefs(animations)
  /\ trace' = <<>>
  /\ UNCHANGED <<element, elementId, refId, animations, emitted, hookVars>>

Next ==
  \/ CallValidateAnimation
  \/ CallGenerateSMILAnimation
  \/ CallGenerateElementAnimations
  \/ CallExtractTriggerRefs

Spec == Init /\ [][Next]_vars

\* ------------------------------------------------------- ensureElementId
\* The ids Date.now() and Math.random() can make up.
GeneratedIds == {"smil-trigger-1", "smil-trigger-2"}

\* The id the node has afterwards: its own when it has one, else `generated`.
ensureElementId(id, generated) == IF id # "" THEN id ELSE generated

\* ---------------------------------------------------- useAnimatedElement
\* The values of the `animate` prop: a key whose value is undefined, a plain
\* spec, a spec triggered by a click on ref1, and an invalid spec (no `to`)
\* triggered by a focus of ref2.
HookAnimations ==
  {Undefined,
   Def(Plain),
   Def([Plain EXCEPT !.id = Def("fade"), !.begin = Def(Trigger("click", "ref1"))]),
   Def([Plain EXCEPT !.to = Undefined, !.begin = Def(Trigger("focus", "ref2"))])}

HookProps == {Undefined} \cup {Def(m) : m \in Mappings(HookAnimations)}

\* A node without an id has the id "".
HookScenarios ==
  {[element |-> "rect", elementId |-> i, refId |-> f, current |-> c, smil |-> b] :
     i \in {"", "rect1"},
     f \in {[r \in Refs |-> ""], [r \in Refs |-> IF r = "ref1" THEN "btn1" ELSE ""]},
     c \in {Refs, {"ref1"}},
     b \in BOOLEAN}

HookInit ==
  \E s \in HookScenarios :
    /\ element = s.element
    /\ elementId = s.elementId
    /\ refId = s.refId
    /\ current = s.current
    /\ smil = s.smil
    /\ animations = <<>>
    /\ animate = Undefined
    /\ call = [op |-> "none", index |-> 0]
    /\ result = Return(Undefined)
    /\ trace = <<>>
    /\ emitted = <<>>
    /\ phase = "initial"
    /\ triggerRefSet = {}
    /\ children = <<>>
    /\ cleanup = FALSE
    /\ hostError = Undefined
    /\ logged = Undefined
    /\ renders = 0

\* tempDiv.innerHTML = animationHTML; tempDiv.firstChild: the node parsed from
\* the directive string.
FirstChild(directive) == [localName |-> "animate", html |-> directive.markup]

\* animationElements.forEach(... element.appendChild ...).
AppendChildren(kids, animationElements) ==
  kids \o [i \in 1..Len(animationElements) |-> FirstChild(animationElements[i])]

\* RemoveAnimateElements that removes the first match only (querySelector).
RemoveAnimateElements_FirstOnly(kids) ==
  IF Len(kids) = 0 THEN kids ELSE Tail(kids)

\* element.querySelectorAll('animate').forEach((el) => el.remove()): what is
\* left of the animate children.
RemoveAnimateElements(kids) ==
  SelectSeq(kids, LAMBDA node : node.localName # "animate")

\* SetupAnimations that attaches each directive as soon as it is compiled.
SetupAnimations_AttachEach(elementTag, mapping, ownerId, kids) ==
  LET r == generateElementAnimations(elementTag, mapping, ownerId)
  IN IF r.outcome.kind = "return"
     THEN [children |-> AppendChildren(kids, r.outcome.value),
           cleanup |-> TRUE, caught |-> Undefined, outcome |-> r.outcome,
           invoked |-> r.invoked]
     ELSE [children |-> AppendChildren(kids, r.compiled),
           cleanup |-> FALSE, caught |-> Def(r.outcome.error),
           outcome |-> r.outcome, invoked |-> r.invoked]

\* The try/catch of the effect on an element whose animate children are
\* `kids`: the children afterwards, whether a cleanup is returned, and the
\* error the catch block got.
SetupAnimations(elementTag, mapping, ownerId, kids) ==
  LET r == generateElementAnimations(elementTag, mapping, ownerId)
  IN IF r.outcome.kind = "return"
     THEN [children |-> AppendChildren(kids, r.outcome.value),
           cleanup |-> TRUE, caught |-> Undefined, outcome |-> r.outcome,
           invoked |-> r.invoked]
     ELSE [children |-> kids, cleanup |-> FALSE,
           caught |-> Def(r.outcome.error), outcome |-> r.outcome,
           invoked |-> r.invoked]

\* The body of the hook up to the effect: React calls it at mount and at
\* every re-render, with the same or another `animate` prop. What
\* extractTriggerRefs throws is thrown by the render, into the host tree,
\* and React unmounts the component.
Render ==
  /\ phase \in {"initial", "idle"}
  /\ renders < MaxRenders
  /\ \E p \in HookProps :
       LET refs == IF TruthyObj(p) THEN extractTriggerRefs(Val(p)) ELSE Return({})
       IN /\ animate' = p
          /\ animations' = IF IsDef(p) THEN Val(p) ELSE <<>>
          /\ result' = refs
          /\ IF refs.kind = "return"
             THEN /\ triggerRefSet' = refs.value
                  /\ phase' = "rendered"
                  /\ hostError' = hostError
             ELSE /\ triggerRefSet' = triggerRefSet
                  /\ phase' = IF cleanup THEN "unmounting" ELSE "unmounted"
                  /\ hostError' = Def(refs.error)
  /\ call' = [op |-> "render", index |-> 0]
  /\ renders' = renders + 1
  /\ UNCHANGED <<element, elementId, refId, trace, emitted, current, smil,
                 children, cleanup, logged>>

\* The cleanup function the previous effect run returned; React calls it
\* before the next effect run and at unmount.
RunCleanup ==
  /\ phase \in {"rendered", "unmounting"}
  /\ cleanup
  /\ children' = RemoveAnimateElements(children)
  /\ cleanup' = FALSE
  /\ phase' = IF phase = "unmounting" THEN "unmounted" ELSE phase
  /\ call' = [op |-> "cleanup", index |-> 0]
  /\ result' = Return(Undefined)
  /\ UNCHANGED <<element, elementId, refId, animations, trace, emitted, animate,
                 current, smil, triggerRefSet, hostError, logged, renders>>

\* The effect. Its dependency triggerRefs is a new Set at every render, so it
\* runs after every render; elementRef.current is the element by then.
RunEffect ==
  /\ phase = "rendered"
  /\ ~cleanup
  /\ call' = [op |-> "effect", index |-> 0]
  /\ phase' = "idle"
  /\ IF ~TruthyObj(animate) \/ ~smil
     THEN /\ result' = Return(Undefined)
          /\ trace' = <<>>
          /\ UNCHANGED <<elementId, refId, children, cleanup, logged>>
     ELSE \E g \in GeneratedIds, h \in [Refs -> GeneratedIds] :
            LET ownerId == ensureElementId(elementId, g)
                setup == SetupAnimations(element, Val(animate), ownerId, children)
            IN /\ elementId' = ownerId
               /\ refId' = [t \in Refs |->
                              IF t \in triggerRefSet /\ t \in current
                              THEN ensureElementId(refId[t], h[t])
                              ELSE refId[t]]
               /\ children' = setup.children
               /\ cleanup' = setup.cleanup
               /\ logged' = IF IsDef(setup.caught) THEN setup.caught ELSE logged
               /\ result' = setup.outcome
               /\ trace' = setup.invoked
  /\ UNCHANGED <<element, animations, emitted, animate, current, smil,
                 triggerRefSet, hostError, renders>>

\* React removes the component.
Unmount ==
  /\ phase = "idle"
  /\ phase' = IF cleanup THEN "unmounting" ELSE "unmounted"
  /\ call' = [op |-> "unmount", index |-> 0]
  /\ result' = Return(Undefined)
  /\ UNCHANGED <<element, elementId, refId, animations, trace, emitted, animate,
                 current, smil, triggerRefSet, children, cleanup, hostError,
                 logged, renders>>

HookNext ==
  \/ Render
  \/ RunCleanup
  \/ RunEffect
  \/ Unmount

HookSpec == HookInit /\ [][HookNext]_vars

\* ------------------------------------------------------------------ claims
\* The spec of the entry the last call worked on.
Called(op) == call.op = op
SpecAt(k) == Val(animations[k].animation)
HasSpec(k) == IsDef(animations[k].animation)

\* The values, in order, of the attributes of a directive named `name`.
RECURSIVE ValuesNamed(_, _)
ValuesNamed(attributes, name) ==
  IF Len(attributes) = 0 THEN <<>>
  ELSE (IF attributes[1].name = name THEN <<attributes[1].value>> ELSE <<>>) \o
       ValuesNamed(Tail(attributes), name)

Returned(op) == Called(op) /\ result.kind = "return"
Threw(op) == Called(op) /\ result.kind = "throw"

\* generateSMILAnimation returned a directive for a spec whose begin is a
\* structured Trigger.
CompiledTrigger ==
  /\ Returned("generateSMILAnimation")
  /\ IsDef(SpecAt(call.index).begin)
  /\ Val(SpecAt(call.index).begin).tag = "trigger"

\* C1: when begin is a structured Trigger {type, target}, the begin attribute
\* of the directive is "<id of the trigger's target node>.<type>", whatever
\* the id of the animated (owner) element is.
C1_BeginNamesTriggerTarget ==
  CompiledTrigger =>
    LET trigger == Val(SpecAt(call.index).begin)
    IN ValuesNamed(result.value.attributes, "begin") =
         <<refId[trigger.target] \o "." \o trigger.type>>

HasValues(a) == IsDef(a.values)
HasEndpoints(a) == IsDef(a.from) /\ IsDef(a.to)

\* C3 as stated: every spec generateSMILAnimation succeeds on has exactly one
\* of {values} and {from and to}. Stated on the specs whose values, when
\* present, has at least two checkpoints, so that a failure is a spec that
\* carries both well-formed forms.
C3_ExactlyOneForm ==
  (/\ Returned("generateSMILAnimation")
   /\ HasValues(SpecAt(call.index)) => Len(Val(SpecAt(call.index).values)) >= 2)
    => (HasValues(SpecAt(call.index)) # HasEndpoints(SpecAt(call.index)))

\* C3 amended: every spec generateSMILAnimation succeeds on has values or
\* both from and to (at least one of the two forms; a spec carrying both
\* compiles); its directive carries the values attribute and neither from
\* nor to when values is present, and from and to but no values otherwise.
C3_AtLeastOneFormOneEmitted ==
  Returned("generateSMILAnimation") =>
    LET a == SpecAt(call.index)
        attributes == result.value.attributes
    IN /\ HasValues(a) \/ HasEndpoints(a)
       /\ HasValues(a) =>
            /\ Len(ValuesNamed(attributes, "values")) = 1
            /\ ValuesNamed(attributes, "from") = <<>>
            /\ ValuesNamed(attributes, "to") = <<>>
       /\ ~HasValues(a) =>
            /\ ValuesNamed(attributes, "values") = <<>>
            /\ Len(ValuesNamed(attributes, "from")) = 1
            /\ Len(ValuesNamed(attributes, "to")) = 1

C3_Witness ==
  /\ Returned("generateSMILAnimation")
  /\ HasValues(SpecAt(call.index))
  /\ Len(Val(SpecAt(call.index).values)) >= 2
  /\ HasEndpoints(SpecAt(call.index))

\* validateAnimation was called on an entry that holds a spec.
Validated == Called("validateAnimation") /\ HasSpec(call.index)

IsValidationError(r) ==
  r.kind = "throw" /\ r.error.name = "AnimationValidationError"

\* A keyTimes with at least one element that does not start at 0, does not
\* end at 1, is not strictly ascending, or has an element outside [0,1].
BadKeyTimes(kt) ==
  /\ Len(kt) > 0
  /\ \/ kt[1] # 0
     \/ kt[Len(kt)] # One
     \/ \E i \in 1..(Len(kt) - 1) : ~(kt[i] < kt[i + 1])
     \/ \E i \in 1..Len(kt) : kt[i] < 0 \/ kt[i] > One

\* C4 as stated: for every spec that has keyTimes, whichever of values or
\* from/to it uses, validateAnimation fails with an AnimationValidationError
\* when keyTimes is bad.
C4_BadKeyTimesRejectedAlways ==
  (/\ Validated
   /\ IsDef(SpecAt(call.index).keyTimes)
   /\ BadKeyTimes(Val(SpecAt(call.index).keyTimes)))
    => IsValidationError(result)

\* C4 amended: for every spec that has values and keyTimes, validateAnimation
\* fails with an AnimationValidationError when keyTimes does not start at 0,
\* does not end at 1, is not strictly ascending, or has an element outside
\* [0,1] (an empty keyTimes, which has no first element, included); the
\* keyTimes of a spec without values are not checked.
C4_BadKeyTimesRejectedWithValues ==
  (/\ Validated
   /\ HasValues(SpecAt(call.index))
   /\ IsDef(SpecAt(call.index).keyTimes)
   /\ \/ Len(Val(SpecAt(call.index).keyTimes)) = 0
      \/ BadKeyTimes(Val(SpecAt(call.index).keyTimes)))
    => IsValidationError(result)

\* A spec whose keyTimes has the length of values, stays in [0,1], starts at
\* 0 and ends at 1, and is not ascending, was rejected.
C4_Witness ==
  /\ Validated
  /\ HasValues(SpecAt(call.index))
  /\ IsDef(SpecAt(call.index).keyTimes)
  /\ Val(SpecAt(call.index).keyTimes) = <<0, 0, One>>
  /\ Len(Val(SpecAt(call.index).values)) = 3
  /\ IsValidationError(result)

\* The error thrown for an easing array of length n against `count`
\* transitions.
EasingLengthError(n, count, k) ==
  [name |-> "AnimationValidationError",
   message |-> "Animation validation error for " \o element \o "." \o
               animations[k].property \o ": Easing array length (" \o
               ToString(n) \o ") must match number of transitions (" \o
               ToString(count) \o ")"]

ValidatedOrCompiled ==
  /\ Called("validateAnimation") \/ Called("generateSMILAnimation")
  /\ HasSpec(call.index)

\* C5: for every spec with values of length n and easing a sequence of length
\* other than n-1, validateAnimation and generateSMILAnimation fail with the
\* easing-length error (and no directive is returned or logged); with an
\* easing sequence of length n-1, or a single easing name, or no easing, the
\* call does not fail with that error.
C5_EasingLengthMismatchRejected ==
  (ValidatedOrCompiled /\ HasValues(SpecAt(call.index))) =>
    LET a == SpecAt(call.index)
        n == Len(Val(a.values))
        isArray == IsDef(a.easing) /\ Val(a.easing).tag = "array"
        m == IF isArray THEN Len(Val(a.easing).names) ELSE 0
    IN IF isArray /\ m # n - 1
       THEN result = Throw(EasingLengthError(m, n - 1, call.index))
       ELSE result.kind = "throw" =>
              \A j \in 0..MaxLen : result.error # EasingLengthError(j, n - 1, call.index)

C5_Witness ==
  /\ Called("generateSMILAnimation")
  /\ HasSpec(call.index)
  /\ HasValues(SpecAt(call.index))
  /\ Len(Val(SpecAt(call.index).values)) = 3
  /\ IsDef(SpecAt(call.index).easing)
  /\ Val(SpecAt(call.index).easing).tag = "array"
  /\ Len(Val(SpecAt(call.index).easing).names) = 3
  /\ result.kind = "throw"

\* The error thrown when neither values nor both endpoints are there.
MissingError(k) ==
  [name |-> "AnimationValidationError",
   message |-> "Animation validation error for " \o element \o "." \o
               animations[k].property \o ": " \o
               "Animation must have either 'values' array or both 'from' and 'to' properties"]

\* C6: for every spec without values, validateAnimation fails with the
\* missing-values-or-endpoints error when from or to is undefined, and
\* passes when both are defined, the value 0 included.
C6_MissingEndpointsRejected ==
  (Validated /\ ~HasValues(SpecAt(call.index))) =>
    IF SpecAt(call.index).from = Undefined \/ SpecAt(call.index).to = Undefined
    THEN result = Throw(MissingError(call.index))
    ELSE result = Return(Undefined)

C6_Witness ==
  /\ Validated
  /\ ~HasValues(SpecAt(call.index))
  /\ SpecAt(call.index).from = Def(0)
  /\ SpecAt(call.index).to = Def(0)
  /\ result = Return(Undefined)

\* The Easing Table conversion: one control-point string per name, joined by
\* "; " for a sequence.
RECURSIVE CurvesOf(_)
CurvesOf(names) ==
  IF Len(names) = 0 THEN ""
  ELSE IF Len(names) = 1 THEN EASING_MAP[names[1]]
  ELSE EASING_MAP[names[1]] \o "; " \o CurvesOf(Tail(names))

\* C7: in a directive, keySplines is the raw keySplines of the spec and
\* calcMode is "spline" when keySplines is supplied, whatever easing and
\* calcMode are; otherwise keySplines is the Easing Table conversion and
\* calcMode is "spline" when easing is supplied, whatever calcMode is;
\* otherwise calcMode is the spec's calcMode when supplied; and a directive
\* has at most one calcMode and at most one keySplines attribute.
C7_InterpolationPrecedence ==
  Returned("generateSMILAnimation") =>
    LET a == SpecAt(call.index)
        splines == ValuesNamed(result.value.attributes, "keySplines")
        modes == ValuesNamed(result.value.attributes, "calcMode")
    IN /\ Len(splines) <= 1 /\ Len(modes) <= 1
       /\ IF IsDef(a.keySplines)
          THEN splines = <<Val(a.keySplines)>> /\ modes = <<"spline">>
          ELSE IF IsDef(a.easing)
          THEN splines = <<CurvesOf(Val(a.easing).names)>> /\ modes = <<"spline">>
          ELSE IF IsDef(a.calcMode)
          THEN splines = <<>> /\ modes = <<Val(a.calcMode)>>
          ELSE splines = <<>> /\ modes = <<>>

C7_Witness ==
  /\ Returned("generateSMILAnimation")
  /\ IsDef(SpecAt(call.index).keySplines)
  /\ IsDef(SpecAt(call.index).easing)
  /\ IsDef(SpecAt(call.index).calcMode)
  /\ ValuesNamed(result.value.attributes, "calcMode") = <<"spline">>

\* What generateSMILAnimation does on entry k of the mapping, and the first
\* entry it fails on.
Compiled(k) == generateSMILAnimation(Config(k))
FailingEntries == {k \in 1..Len(animations) : Compiled(k).kind = "throw"}
FirstFailing == CHOOSE k \in FailingEntries : \A j \in FailingEntries : k <= j

\* The failure of entry k as the caller of generateElementAnimations gets it:
\* a validation error as it is, anything else wrapped with the property name
\* and the element tag.
RaisedFor(k) ==
  IF Compiled(k).error.name = "AnimationValidationError"
  THEN Compiled(k).error
  ELSE [name |-> "AnimationValidationError",
        message |-> "Animation validation error for " \o element \o "." \o
                    animations[k].property \o ": Failed to generate animation: " \o
                    Compiled(k).error.name \o ": " \o Compiled(k).error.message]

\* C8: generateElementAnimations returns one directive per entry, in the
\* order of the mapping, each the one generateSMILAnimation gives for that
\* entry, when every entry compiles; otherwise it raises the failure of the
\* first failing entry, returns nothing, and has called generateSMILAnimation
\* on no entry after that one.
C8_AtomicFailFast ==
  Called("generateElementAnimations") =>
    IF FailingEntries = {}
    THEN /\ result = Return([k \in 1..Len(animations) |-> Compiled(k).value])
         /\ trace = [k \in 1..Len(animations) |-> animations[k].property]
    ELSE /\ result = Throw(RaisedFor(FirstFailing))
         /\ trace = [k \in 1..FirstFailing |-> animations[k].property]

\* The first of two entries failed, the second would have compiled.
C8_Witness ==
  /\ Threw("generateElementAnimations")
  /\ Len(animations) = 2
  /\ FailingEntries = {1}
  /\ trace = <<animations[1].property>>

\* C9: every failure generateElementAnimations raises is an
\* AnimationValidationError: a validation failure is raised unchanged, and
\* any other failure of an entry (a key whose spec is undefined) is wrapped
\* into one that carries the property name and the element tag.
C9_UniformErrorKind ==
  Threw("generateElementAnimations") =>
    /\ result.error.name = "AnimationValidationError"
    /\ LET k == Len(trace)
       IN IF HasSpec(k)
          THEN result.error = validateAnimation(animations[k].property,
                                                animations[k].animation,
                                                element).error
          ELSE result.error =
                 [name |-> "AnimationValidationError",
                  message |-> "Animation validation error for " \o element \o
                              "." \o animations[k].property \o
                              ": Failed to generate animation: TypeError: " \o
                              TypeErrorUndefined.message]

\* The failing entry is a key whose spec is undefined, after one that compiled.
C9_Witness ==
  /\ Threw("generateElementAnimations")
  /\ Len(trace) = 2
  /\ ~HasSpec(2)
  /\ result.error.name = "AnimationValidationError"

\* The target references of the specs whose begin is a structured Trigger.
TriggerTargets ==
  {Val(SpecAt(k).begin).target :
     k \in {j \in 1..Len(animations) :
              /\ IsDef(SpecAt(j).begin)
              /\ Val(SpecAt(j).begin).tag = "trigger"}}

AttributeOrder ==
  <<"id", "attributeName", "dur", "values", "from", "to", "begin", "keyTimes",
    "keySplines", "calcMode", "repeatCount", "fill", "restart">>

Rank(name) == CHOOSE i \in 1..Len(AttributeOrder) : AttributeOrder[i] = name

\* The text of a list of checkpoints: the numbers in order, ';' between them.
RECURSIVE Checkpoints(_)
Checkpoints(nums) ==
  IF Len(nums) = 0 THEN ""
  ELSE IF Len(nums) = 1 THEN NumText(nums[1])
  ELSE NumText(nums[1]) \o ";" \o Checkpoints(Tail(nums))

\* C11: the attributes of every directive generateSMILAnimation returns are
\* named from the fixed list id, attributeName, dur, values, from, to, begin,
\* keyTimes, keySplines, calcMode, repeatCount, fill, restart and come in that
\* order, none twice; id, attributeName and dur are always there (dur and
\* attributeName with the spec's duration and the property); values is the
\* checkpoints joined by ';' and excludes from/to; each of begin, keyTimes,
\* repeatCount, fill and restart is there exactly when the spec supplies it,
\* with the supplied value: a literal begin as it is, keyTimes joined by ';',
\* the repeat count as its number or 'indefinite'. A structured Trigger begin
\* has no text to pass through: it is there as "<an element id>.<type>".
\* The spec values=[0,50,100], keyTimes=[0,0.5,1], easing='linear' gives
\* values="0;50;100", keyTimes="0;0.5;1", keySplines="0 0 1 1",
\* calcMode="spline".
C11_FixedAttributeOrder ==
  Returned("generateSMILAnimation") =>
    LET a == SpecAt(call.index)
        attributes == result.value.attributes
        Named(n) == ValuesNamed(attributes, n)
    IN /\ \A i \in 1..Len(attributes) :
            \E r \in 1..Len(AttributeOrder) : AttributeOrder[r] = attributes[i].name
       /\ \A i \in 1..(Len(attributes) - 1) :
            Rank(attributes[i].name) < Rank(attributes[i + 1].name)
       /\ Len(attributes) >= 3
       /\ attributes[1].name = "id"
       /\ attributes[2] = [name |-> "attributeName",
                           value |-> animations[call.index].property]
       /\ attributes[3] = [name |-> "dur", value |-> a.duration]
       /\ IF IsDef(a.values)
          THEN Named("values") = <<Checkpoints(Val(a.values))>>
          ELSE Named("values") = <<>>
       /\ IF IsDef(a.begin)
          THEN IF Val(a.begin).tag = "string"
               THEN Named("begin") = <<Val(a.begin).text>>
               ELSE \E id \in IdNames :
                      Named("begin") = <<id \o "." \o Val(a.begin).type>>
          ELSE Named("begin") = <<>>
       /\ IF IsDef(a.keyTimes)
          THEN Named("keyTimes") = <<Checkpoints(Val(a.keyTimes))>>
          ELSE Named("keyTimes") = <<>>
       /\ IF IsDef(a.repeatCount)
          THEN Named("repeatCount") =
                 <<IF Val(a.repeatCount).tag = "number"
                   THEN NumText(Val(a.repeatCount).n) ELSE "indefinite">>
          ELSE Named("repeatCount") = <<>>
       /\ Named("fill") = a.fill
       /\ Named("restart") = a.restart
       /\ (/\ a.values = Def(<<0, 50 * One, 100 * One>>)
           /\ a.keyTimes = Def(<<0, 1, One>>)
           /\ a.easing = Def(EasingName("linear"))
           /\ a.keySplines = Undefined)
            => /\ Named("values") = <<"0;50;100">>
               /\ Named("keyTimes") = <<"0;0.5;1">>
               /\ Named("keySplines") = <<"0 0 1 1">>
               /\ Named("calcMode") = <<"spline">>

\* A directive that carries every optional attribute: the eleven names from
\* id to restart, with values rather than from/to.
C11_Witness ==
  /\ Returned("generateSMILAnimation")
  /\ [i \in 1..Len(result.value.attributes) |-> result.value.attributes[i].name]
       = <<"id", "attributeName", "dur", "values", "begin", "keyTimes",
           "keySplines", "calcMode", "repeatCount", "fill", "restart">>
  /\ Val(SpecAt(call.index).begin).tag = "string"

\* C12: whenever generateSMILAnimation returns a directive for a spec that
\* has values, values has at least two checkpoints (one transition): a spec
\* whose values is empty or has one checkpoint yields no directive.
C12_ValuesHasTransition ==
  (Returned("generateSMILAnimation") /\ HasValues(SpecAt(call.index)))
    => Len(Val(SpecAt(call.index).values)) >= 2

\* The AnimationValidationError with the text `text` for entry k.
ValidationFailure(k, text) ==
  [name |-> "AnimationValidationError",
   message |-> "Animation validation error for " \o element \o "." \o
               animations[k].property \o ": " \o text]

\* The rules of validateAnimation a spec violates, each taken on its own; the
\* rules about easing and keyTimes are rules of a spec that has values.
ViolatesEasingLength(a) ==
  /\ HasValues(a) /\ IsDef(a.easing) /\ Val(a.easing).tag = "array"
  /\ Len(Val(a.easing).names) # Len(Val(a.values)) - 1
ViolatesKeyTimesLength(a) ==
  HasValues(a) /\ IsDef(a.keyTimes) /\ Len(Val(a.keyTimes)) # Len(Val(a.values))
OutsideUnit(kt, i) == kt[i] < 0 \/ kt[i] > One
NotAbovePrevious(kt, i) == i > 1 /\ ~(kt[i] > kt[i - 1])
ScanViolations(kt) ==
  {i \in 1..Len(kt) : OutsideUnit(kt, i) \/ NotAbovePrevious(kt, i)}
ViolatesScan(a) ==
  HasValues(a) /\ IsDef(a.keyTimes) /\ ScanViolations(Val(a.keyTimes)) # {}
ViolatesFirstZero(a) ==
  /\ HasValues(a) /\ IsDef(a.keyTimes)
  /\ (Len(Val(a.keyTimes)) = 0 \/ Val(a.keyTimes)[1] # 0)
ViolatesLastOne(a) ==
  /\ HasValues(a) /\ IsDef(a.keyTimes)
  /\ (Len(Val(a.keyTimes)) = 0 \/ Val(a.keyTimes)[Len(Val(a.keyTimes))] # One)
ViolatesMissing(a) == ~HasValues(a) /\ ~HasEndpoints(a)

\* The text of the scan's failure: at the least violating index, the range
\* rule goes before the ascending rule.
ScanText(kt) ==
  LET i == CHOOSE j \in ScanViolations(kt) : \A h \in ScanViolations(kt) : j <= h
  IN IF OutsideUnit(kt, i)
     THEN "keyTimes values must be between 0 and 1, got " \o NumText(kt[i]) \o
          " at index " \o ToString(i - 1)
     ELSE "keyTimes values must be in ascending order"

\* C13: validateAnimation raises the error of the earliest rule the spec
\* violates, in the order easing length, keyTimes length, keyTimes scan (by
\* increasing index, range before ascending at each index), first keyTimes
\* not 0, last keyTimes not 1, missing values or endpoints; it raises that
\* one error and nothing else, and returns when no rule is violated.
C13_EarliestRuleRaised ==
  Validated =>
    LET a == SpecAt(call.index)
        k == call.index
    IN result =
         IF ViolatesEasingLength(a)
         THEN Throw(ValidationFailure(k,
                "Easing array length (" \o ToString(Len(Val(a.easing).names)) \o
                ") must match number of transitions (" \o
                ToString(Len(Val(a.values)) - 1) \o ")"))
         ELSE IF ViolatesKeyTimesLength(a)
         THEN Throw(ValidationFailure(k,
                "keyTimes array length (" \o ToString(Len(Val(a.keyTimes))) \o
                ") must match values array length (" \o
                ToString(Len(Val(a.values))) \o ")"))
         ELSE IF ViolatesScan(a)
         THEN Throw(ValidationFailure(k, ScanText(Val(a.keyTimes))))
         ELSE IF ViolatesFirstZero(a)
         THEN Throw(ValidationFailure(k,
                "First keyTimes value must be 0, got " \o
                (IF Len(Val(a.keyTimes)) = 0 THEN "undefined"
                 ELSE NumText(Val(a.keyTimes)[1]))))
         ELSE IF ViolatesLastOne(a)
         THEN Throw(ValidationFailure(k,
                "Last keyTimes value must be 1, got " \o
                NumText(Val(a.keyTimes)[Len(Val(a.keyTimes))])))
         ELSE IF ViolatesMissing(a)
         THEN Throw(ValidationFailure(k, MissingMessage))
         ELSE Return(Undefined)

\* A spec that violates the first five rules at once was rejected with the
\* easing-length error.
C13_Witness ==
  /\ Validated
  /\ ViolatesEasingLength(SpecAt(call.index))
  /\ ViolatesKeyTimesLength(SpecAt(call.index))
  /\ ViolatesScan(SpecAt(call.index))
  /\ ViolatesFirstZero(SpecAt(call.index))
  /\ ViolatesLastOne(SpecAt(call.index))
  /\ result.kind = "throw"

\* At one index both scan rules are violated, and the ends are wrong too.
C13_WitnessScan ==
  /\ Validated
  /\ HasValues(SpecAt(call.index))
  /\ IsDef(SpecAt(call.index).keyTimes)
  /\ ~ViolatesEasingLength(SpecAt(call.index))
  /\ ~ViolatesKeyTimesLength(SpecAt(call.index))
  /\ \E i \in 2..Len(Val(SpecAt(call.index).keyTimes)) :
       /\ OutsideUnit(Val(SpecAt(call.index).keyTimes), i)
       /\ NotAbovePrevious(Val(SpecAt(call.index).keyTimes), i)
       /\ ScanViolations(Val(SpecAt(call.index).keyTimes)) \cap 1..(i - 1) = {}
  /\ ViolatesFirstZero(SpecAt(call.index))
  /\ ViolatesLastOne(SpecAt(call.index))
  /\ result.kind = "throw"

\* The mapping of the latest render does not compile: generateSMILAnimation
\* fails on one of its entries.
MappingFails == IsDef(animate) /\ FailingEntries # {}

\* C14: when the mapping the component is rendered with fails to compile for
\* some property, nothing is thrown into the host tree; once the effect has
\* run on a host that supports the engine, the failure has been caught and logged,
\* no cleanup is pending and the element has no animate child, not even for
\* the entries before the failing one; and after any effect run the element
\* has animate children only if the host supports the animation engine and
\* every entry of the mapping compiled.
C14_CompileFailureCaughtInEffect ==
  /\ MappingFails =>
       /\ hostError = Undefined
       /\ (Called("effect") /\ smil) =>
            /\ result = Throw(RaisedFor(FirstFailing))
            /\ logged = Def(result.error)
            /\ children = <<>>
            /\ ~cleanup
  /\ (Called("effect") /\ children # <<>>) =>
       (smil /\ IsDef(animate) /\ FailingEntries = {})

\* What holds of C14: the same statement for the mappings whose entries all
\* hold a spec, where a failure is a validation failure.
ValidationFailureCaughtInEffect ==
  (IsDef(animate) /\ \A k \in 1..Len(animations) : HasSpec(k)) =>
    C14_CompileFailureCaughtInEffect

\* The effect ran on a mapping whose second entry fails after the first one
\* compiled: the failure is logged and nothing is attached.
ValidationFailureCaughtWitness ==
  /\ Called("effect")
  /\ smil
  /\ Len(animations) = 2
  /\ FailingEntries = {2}
  /\ HasSpec(2)
  /\ children = <<>>
  /\ logged = Def(result.error)
  /\ hostError = Undefined

\* The animate children the current mapping compiles to: one per entry, in
\* the order of the mapping.
ChildrenOfMapping ==
  [k \in 1..Len(animations) |->
     [localName |-> "animate", html |-> Compiled(k).value.markup]]

\* C15: directives never accumulate over renders, effect runs, cleanups and
\* the unmount of one component. After an effect run that compiled the
\* mapping the element has exactly one animate child per entry of the current
\* mapping (those the mapping compiles to, in order) and a cleanup is pending;
\* after a cleanup it has none; animate children are there only while the
\* cleanup of the run that attached them is pending, so every effect run
\* starts on an element without animate children.
C15_DirectivesNeverAccumulate ==
  /\ (Called("effect") /\ IsDef(animate) /\ smil /\ result.kind = "return") =>
       /\ children = ChildrenOfMapping
       /\ cleanup
  /\ (Called("effect") /\ ~(IsDef(animate) /\ smil /\ result.kind = "return")) =>
       children = <<>>
  /\ Called("cleanup") => children = <<>>
  /\ children # <<>> => cleanup
  /\ (phase = "rendered" /\ ~cleanup) => children = <<>>
  /\ phase = "unmounted" => children = <<>>

\* The cleanup of a run that attached two directives has removed them, and
\* the effect is about to run on another mapping that compiles.
C15_Witness ==
  /\ Called("cleanup")
  /\ phase = "rendered"
  /\ Len(trace) = 2
  /\ children = <<>>
  /\ IsDef(animate)
  /\ Len(animations) = 1
  /\ FailingEntries = {}
  /\ smil

\* The second effect run of a component left exactly the two directives of
\* its mapping.
C15_WitnessRerun ==
  /\ Called("effect")
  /\ renders = 2
  /\ Len(children) = 2
  /\ children = ChildrenOfMapping

====
